---- MODULE Spec2Model ----
(***************************************************************************)
(* A model of rimage's command pipeline (src/cli/pipeline.rs) and of the   *)
(* two native codec adapters (codecs/jpegli/decoder, codecs/mozjpeg/       *)
(* encoder).  Four subsystems, each with its own specification:            *)
(*   SpecDecode   decode(): universal decoder and specialized fallback     *)
(*   SpecOps      operations(): the index-keyed map and its application    *)
(*   SpecEncoder  encoder() and MozJpegEncoder::encode_inner               *)
(*   SpecJpegli   JpegliDecoder::decode                                    *)
(***************************************************************************)
EXTENDS Integers, Sequences, FiniteSets, TLC

VARIABLES
    features,    \* cargo features the binary was built with
    fs,          \* the file system: path -> kind of content, or "missing"
    reqPath,     \* decode(): the path last requested, <<>> before any call
    decResult,   \* decode(): the value returned
    filesRead,   \* decode(): the paths the call read, in order
    invoked,     \* decode(): the decoders the call invoked, in order
    img,         \* the canonical image's dimensions <<w, h>>
    matches,     \* operations(): the ArgMatches it was given, <<>> before
    map,         \* operations(): the BTreeMap it returned
    applied,     \* the entries of map the caller has applied so far
    encMatches,  \* encoder(): the ArgMatches it was given, <<>> before
    enc,         \* encoder(): the value returned
    comp,        \* encode_inner(): the mozjpeg::Compress as configured
    encodeOut,   \* encode_inner(): the value returned (or the escaped panic)
    inner,       \* JpegliDecoder.inner: the JPEG the source held
    dimensions,  \* JpegliDecoder.dimensions
    colorspace,  \* JpegliDecoder.colorspace
    jpegliOut    \* JpegliDecoder::decode: the value returned (or the panic)

vars == <<features, fs, reqPath, decResult, filesRead, invoked, img, matches,
          map, applied, encMatches, enc, comp, encodeOut, inner,
          dimensions, colorspace, jpegliOut>>

decodeVars == <<fs, reqPath, decResult, filesRead, invoked>>
opsVars == <<img, matches, map, applied>>
encVars == <<encMatches, enc, comp, encodeOut>>
jpegliVars == <<inner, dimensions, colorspace, jpegliOut>>

\* Option<T> and Result<T, E>
None == <<>>
Some(x) == <<x>>
Ok(v) == [tag |-> "Ok", val |-> v]
Err(e) == [tag |-> "Err", val |-> e]
Panic(p) == [tag |-> "Panic", val |-> p]
NotCalled == [tag |-> "NotCalled", val |-> ""]

AllFeatures == {"avif", "webp", "resize", "quantization"}

(***************************************************************************)
(* decode()                                                                *)
(***************************************************************************)
Fixture == "tests/files/avif/f1t.avif"
Paths == {Fixture, "photo.avif", "photo.WEBP", "photo.dat"}

\* Path::extension of each path of the model
Extension(f) ==
    CASE f = Fixture -> Some("avif")
      [] f = "photo.avif" -> Some("avif")
      [] f = "photo.WEBP" -> Some("WEBP")
      [] OTHER -> Some("dat")

\* OsStr::eq_ignore_ascii_case(ext, "webp"), on the extensions of the model
EqIgnoreAsciiCase(ext, s) ==
    \/ ext = s
    \/ ext = "WEBP" /\ s = "webp"

\* What a file holds.  png: a format the universal decoder decodes; pngbad:
\* that format, malformed; avif, webp, jxl: formats whose decoder the universal
\* decoder does not include; avifbad: AVIF signature, corrupt body; other: no
\* known signature.
Kinds == {"png", "pngbad", "avif", "avifbad", "webp", "jxl", "other"}
Missing == "missing"

\* The image held by the file at path p
Img(p) == [src |-> p]

\* std::fs::read
Read(p) == IF fs[p] = Missing THEN Err("IoError") ELSE Ok([path |-> p, kind |-> fs[p]])

\* Image::open: the universal decoder, format detected from the content
ImageOpen(f) ==
    CASE fs[f] = Missing -> Err("IoError")
      [] fs[f] = "png" -> Ok(Img(f))
      [] fs[f] = "pngbad" -> Err("ImageDecodeErrors")
      [] fs[f] = "other" -> Err("ImageDecoderNotImplemented")
      [] OTHER -> Err("ImageDecoderNotIncluded")

\* libavif::is_avif: the content carries the AVIF signature
IsAvif(content) == content.kind \in {"avif", "avifbad"}

\* AvifDecoder::try_new(reader)? followed by decode
AvifDecode(content) ==
    IF content.kind = "avif" THEN Ok(Img(content.path)) ELSE Err("ImageDecodeErrors")

\* WebPDecoder::try_new(reader)? followed by decode
WebPDecode(content) ==
    IF content.kind = "webp" THEN Ok(Img(content.path)) ELSE Err("ImageDecodeErrors")

\* matches!(e, ImageErrors::ImageDecoderNotIncluded(_))
ShouldFallbackAny(e) == TRUE
ShouldFallback(e) == e = "ImageDecoderNotIncluded"

\* the path whose bytes the fallback reads
FallbackPath(f) == Fixture

\* the or_else closure of decode(): [result, read, invoked]
Fallback(f, e) ==
    LET p == FallbackPath(f)
        file_content == Read(p)
    IN  IF file_content.tag = "Err"
        THEN [result |-> file_content, read |-> <<p>>, invoked |-> <<>>]
        ELSE IF "avif" \in features /\ IsAvif(file_content.val)
        THEN [result |-> AvifDecode(file_content.val), read |-> <<p>>,
              invoked |-> <<"avif">>]
        ELSE IF /\ "webp" \in features
                /\ Extension(f) # None
                /\ EqIgnoreAsciiCase(Extension(f)[1], "webp")
        THEN [result |-> WebPDecode(file_content.val), read |-> <<p>>,
              invoked |-> <<"webp">>]
        ELSE [result |-> Err("ImageDecoderNotImplemented"), read |-> <<p>>,
              invoked |-> <<>>]

\* decode(f): [result, read, invoked]
DecodeOf(f) ==
    LET u == ImageOpen(f)
    IN  IF u.tag = "Ok"
        THEN [result |-> u, read |-> <<f>>, invoked |-> <<"universal">>]
        ELSE IF ShouldFallback(u.val)
        THEN LET fb == Fallback(f, u.val)
             IN  [result |-> fb.result, read |-> <<f>> \o fb.read,
                  invoked |-> <<"universal">> \o fb.invoked]
        ELSE [result |-> Err(u.val), read |-> <<f>>, invoked |-> <<"universal">>]

Decode(f) ==
    /\ reqPath' = Some(f)
    /\ decResult' = DecodeOf(f).result
    /\ filesRead' = DecodeOf(f).read
    /\ invoked' = DecodeOf(f).invoked
    /\ UNCHANGED <<features, fs, opsVars, encVars, jpegliVars>>

(***************************************************************************)
(* operations()                                                            *)
(***************************************************************************)
MaxIdx == 3      \* argument-slot indices are 0..MaxIdx
MaxOcc == 2      \* occurrences of one flag on a command line

\* ResizeValue (cli/preprocessors): a percentage of the current dimensions,
\* or absolute dimensions
Percentage(p) == [kind |-> "Percentage", a |-> p, b |-> p]
Dimensions(w, h) == [kind |-> "Dimensions", a |-> w, b |-> h]
ResizeValues == {Percentage(50), Percentage(200), Dimensions(6, 2)}
QuantizationValues == {16, 255}
ResizeFilters == {None, Some("Lanczos3")}
Ditherings == {None, Some(75)}
ImageDimensions == {<<8, 4>>, <<6, 6>>}

\* ResizeValue::map_dimensions
MapDimensions(value, w, h) ==
    IF value.kind = "Percentage"
    THEN <<(w * value.a) \div 100, (h * value.b) \div 100>>
    ELSE <<value.a, value.b>>

\* The occurrences of one flag, as clap holds them: values in command-line
\* order, each with the index of its argument slot (increasing).
Occurrences(Vals) ==
    UNION {{s \in [1..n -> [value : Vals, idx : 0..MaxIdx]] :
               \A i \in 1..n : \A j \in 1..n : i < j => s[i].idx < s[j].idx}
           : n \in 0..MaxOcc}

Indices(occ) == {occ[i].idx : i \in DOMAIN occ}

\* The ArgMatches operations() may be given: slot indices are unique across
\* the whole command line.
OperationMatches ==
    {m \in [resize : Occurrences(ResizeValues), filter : ResizeFilters,
            quantization : Occurrences(QuantizationValues), dithering : Ditherings] :
        Indices(m.resize) \cap Indices(m.quantization) = {}}

\* ArgMatches::get_many: None when the flag never occurred
GetMany(m, id) ==
    LET occ == IF id = "resize" THEN m.resize ELSE m.quantization
    IN  IF occ = <<>> THEN None ELSE Some([i \in DOMAIN occ |-> occ[i].value])

\* ArgMatches::indices_of
IndicesOf(m, id) ==
    LET occ == IF id = "resize" THEN m.resize ELSE m.quantization
    IN  IF occ = <<>> THEN None ELSE Some([i \in DOMAIN occ |-> occ[i].idx])

\* Iterator::zip
Zip(xs, ys) ==
    LET n == IF Len(xs) < Len(ys) THEN Len(xs) ELSE Len(ys)
    IN  [i \in 1..n |-> <<xs[i], ys[i]>>]

\* BTreeMap<usize, Box<dyn OperationsTrait>>: the entries in iteration order,
\* which is key order.  insert replaces the value of a key already present.
BTreeMapNew == <<>>

BTreeInsertAtEnd(m, k, v) == Append(m, [key |-> k, val |-> v])

BTreeInsert(m, k, v) ==
    LET before == SelectSeq(m, LAMBDA e : e.key < k)
        after == SelectSeq(m, LAMBDA e : e.key > k)
    IN  before \o <<[key |-> k, val |-> v]>> \o after

\* Resize::new(w, h, filter) and Quantize::new(colors, dithering)
ResizeNew(w, h, alg) == [kind |-> "Resize", w |-> w, h |-> h, alg |-> alg, dith |-> None]
QuantizeNew(q, d) == [kind |-> "Quantize", w |-> q, h |-> 0, alg |-> "", dith |-> d]

\* filter.copied().map(Into::<ResizeAlg>::into).unwrap_or_default()
ResizeAlgOf(filter) == IF filter = None THEN "Default" ELSE filter[1]

\* dithering.map(|q| *q as f32 / 100.): the fraction <<q, 100>>
DitheringOf(d) == IF d = None THEN None ELSE Some(<<d[1], 100>>)

\* the dimensions a resize occurrence is resolved against: those captured
\* once, before the loop
RECURSIVE InsertResizes(_, _, _, _, _)
InsertResizes(m, pairs, w, h, filter) ==
    IF pairs = <<>> THEN m
    ELSE LET value == Head(pairs)[1]
             idx == Head(pairs)[2]
             d == MapDimensions(value, w, h)
         IN  InsertResizes(BTreeInsert(m, idx, ResizeNew(d[1], d[2], ResizeAlgOf(filter))),
                           Tail(pairs), w, h, filter)

RECURSIVE InsertQuantizations(_, _, _)
InsertQuantizations(m, pairs, dithering) ==
    IF pairs = <<>> THEN m
    ELSE LET value == Head(pairs)[1]
             idx == Head(pairs)[2]
         IN  InsertQuantizations(BTreeInsert(m, idx, QuantizeNew(value, DitheringOf(dithering))),
                                 Tail(pairs), dithering)

\* operations(matches, img)
OperationsOf(m, image) ==
    LET m0 == BTreeMapNew
        m1 == IF "resize" \in features /\ GetMany(m, "resize") # None
              THEN InsertResizes(m0, Zip(GetMany(m, "resize")[1], IndicesOf(m, "resize")[1]),
                                 image[1], image[2], m.filter)
              ELSE m0
        m2 == IF "quantization" \in features /\ GetMany(m, "quantization") # None
              THEN InsertQuantizations(m1, Zip(GetMany(m, "quantization")[1],
                                               IndicesOf(m, "quantization")[1]),
                                       m.dithering)
              ELSE m1
    IN  m2

Operations(m) ==
    /\ matches' = Some(m)
    /\ map' = OperationsOf(m, img)
    /\ UNCHANGED <<features, img, applied, decodeVars, encVars, jpegliVars>>

\* OperationsTrait::execute: a resize leaves the image with its target
\* dimensions, a quantization leaves the dimensions alone
Execute(op, image) == IF op.kind = "Resize" THEN <<op.w, op.h>> ELSE image

\* The caller's loop over the map: one iteration
ApplyNext ==
    /\ matches # None
    /\ Len(applied) < Len(map)
    /\ img' = Execute(map[Len(applied) + 1].val, img)
    /\ applied' = Append(applied, map[Len(applied) + 1])
    /\ UNCHANGED <<features, matches, map, decodeVars, encVars, jpegliVars>>

(***************************************************************************)
(* encoder()                                                               *)
(***************************************************************************)
ImageError(variant, sub, msg) == [variant |-> variant, sub |-> sub, msg |-> msg]

EncoderNames == {"farbfeld", "jpeg", "jpeg_xl", "mozjpeg", "png", "ppm", "qoi"}
SubcommandNames == EncoderNames \cup {"avif", "Jpeg", ""}

Qualities == {40, 90}
QTableNames ==
    {"AhumadaWatsonPeterson", "AnnexK", "Flat", "KleinSilversteinCarney", "MSSSIM",
     "NRobidoux", "PSNRHVS", "PetersonAhumadaWatson", "WatsonTaylorBorthwick"}

\* The flags and values the mozjpeg arm passes through, all at their defaults
\* or all set
PassedThrough ==
    {[baseline |-> FALSE, no_optimize_coding |-> FALSE, smoothing |-> None,
      multipass |-> FALSE, subsample |-> None],
     [baseline |-> TRUE, no_optimize_coding |-> TRUE, smoothing |-> Some(10),
      multipass |-> TRUE, subsample |-> Some(2)]}

\* The sub-matches of the mozjpeg subcommand, as clap validates them: quality
\* and colorspace always hold a value.
MozJpegMatches ==
    {[quality |-> q, chroma_quality |-> cq, baseline |-> pt.baseline,
      no_optimize_coding |-> pt.no_optimize_coding, smoothing |-> pt.smoothing,
      colorspace |-> cs, multipass |-> pt.multipass, subsample |-> pt.subsample,
      qtable |-> qt] :
        q \in Qualities, cq \in {None} \cup {Some(x) : x \in Qualities},
        pt \in PassedThrough, cs \in {"ycbcr", "rgb", "grayscale"},
        qt \in {None} \cup {Some(n) : n \in QTableNames}}

NoSubMatches == [quality : {0}]

\* The ArgMatches encoder() may be given
EncoderMatches ==
    {[subcommand |-> None]}
        \cup {[subcommand |-> Some(<<"mozjpeg", sub>>)] : sub \in MozJpegMatches}
        \cup {[subcommand |-> Some(<<name, sub>>)] :
                  name \in SubcommandNames \ {"mozjpeg"}, sub \in NoSubMatches}

\* QTable::scaled(dc_quality, ac_quality) of a table of mozjpeg::qtable
Scaled(base, dc, ac) == [base |-> base, dc |-> dc, ac |-> ac]

\* the luma_qtable match
LumaQTable(c, quality) ==
    CASE c = "AhumadaWatsonPeterson" -> Scaled("AhumadaWatsonPeterson", quality, quality)
      [] c = "AnnexK" -> Scaled("AnnexK_Luma", quality, quality)
      [] c = "Flat" -> Scaled("Flat", quality, quality)
      [] c = "KleinSilversteinCarney" -> Scaled("KleinSilversteinCarney", quality, quality)
      [] c = "MSSSIM" -> Scaled("MSSSIM_Luma", quality, quality)
      [] c = "NRobidoux" -> Scaled("NRobidoux", quality, quality)
      [] c = "PSNRHVS" -> Scaled("PSNRHVS_Luma", quality, quality)
      [] c = "PetersonAhumadaWatson" -> Scaled("PetersonAhumadaWatson", quality, quality)
      [] c = "WatsonTaylorBorthwick" -> Scaled("WatsonTaylorBorthwick", quality, quality)

\* the chroma_qtable match
ChromaQTableAsLuma(c, chroma_quality) == LumaQTable(c, chroma_quality)

ChromaQTable(c, chroma_quality) ==
    CASE c = "AhumadaWatsonPeterson" ->
             Scaled("AhumadaWatsonPeterson", chroma_quality, chroma_quality)
      [] c = "AnnexK" -> Scaled("AnnexK_Chroma", chroma_quality, chroma_quality)
      [] c = "Flat" -> Scaled("Flat", chroma_quality, chroma_quality)
      [] c = "KleinSilversteinCarney" ->
             Scaled("KleinSilversteinCarney", chroma_quality, chroma_quality)
      [] c = "MSSSIM" -> Scaled("MSSSIM_Chroma", chroma_quality, chroma_quality)
      [] c = "NRobidoux" -> Scaled("NRobidoux", chroma_quality, chroma_quality)
      [] c = "PSNRHVS" -> Scaled("PSNRHVS_Chroma", chroma_quality, chroma_quality)
      [] c = "PetersonAhumadaWatson" ->
             Scaled("PetersonAhumadaWatson", chroma_quality, chroma_quality)
      [] c = "WatsonTaylorBorthwick" ->
             Scaled("WatsonTaylorBorthwick", chroma_quality, chroma_quality)

\* the color_space match
MozColorSpace(name) ==
    CASE name = "ycbcr" -> "JCS_YCbCr"
      [] name = "rgb" -> "JCS_EXT_RGB"
      [] name = "grayscale" -> "JCS_GRAYSCALE"

\* the MozJpegOptions the mozjpeg arm builds
MozJpegOptionsOf(sub) ==
    LET quality == sub.quality
        chroma_quality == IF sub.chroma_quality = None THEN quality
                          ELSE sub.chroma_quality[1]
    IN  [quality |-> quality,
         progressive |-> ~sub.baseline,
         optimize_coding |-> ~sub.no_optimize_coding,
         smoothing |-> IF sub.smoothing = None THEN 0 ELSE sub.smoothing[1],
         color_space |-> MozColorSpace(sub.colorspace),
         trellis_multipass |-> sub.multipass,
         chroma_subsample |-> sub.subsample,
         luma_qtable |-> IF sub.qtable = None THEN None
                         ELSE Some(LumaQTable(sub.qtable[1], quality)),
         chroma_qtable |-> IF sub.qtable = None THEN None
                           ELSE Some(ChromaQTable(sub.qtable[1], chroma_quality))]

Encoder_(kind, options, ext) == Ok([encoder |-> [kind |-> kind, options |-> options], ext |-> ext])

\* the arm of a name that is no encoder
NotFoundAsNoEncoder(name) == Err(ImageError("GenericStr", "", <<"No encoder used">>))
NotFound(name) ==
    Err(ImageError("GenericString", "", <<"Encoder \"", name, "\" not found">>))

\* encoder(matches).  The options of the encoders other than mozjpeg are not
\* part of the model.
EncoderOf(m) ==
    IF m.subcommand = None
    THEN Err(ImageError("GenericStr", "", <<"No encoder used">>))
    ELSE LET name == m.subcommand[1][1]
             sub == m.subcommand[1][2]
         IN  CASE name = "farbfeld" -> Encoder_("FarbFeldEncoder", None, "ff")
               [] name = "jpeg" -> Encoder_("JpegEncoder", None, "jpg")
               [] name = "jpeg_xl" -> Encoder_("JxlEncoder", None, "jxl")
               [] name = "mozjpeg" ->
                      Encoder_("MozJpegEncoder", Some(MozJpegOptionsOf(sub)), "jpg")
               [] name = "png" -> Encoder_("PngEncoder", None, "png")
               [] name = "ppm" -> Encoder_("PPMEncoder", None, "ppm")
               [] name = "qoi" -> Encoder_("QoiEncoder", None, "qoi")
               [] OTHER -> NotFound(name)

Encoder(m) ==
    /\ encMatches' = Some(m)
    /\ enc' = EncoderOf(m)
    /\ UNCHANGED <<features, comp, encodeOut, decodeVars, opsVars, jpegliVars>>

(***************************************************************************)
(* MozJpegEncoder::encode_inner                                            *)
(***************************************************************************)
\* the colorspaces an image handed to the encoder may have ("HSV": one the
\* match has no arm for)
ImageColorSpaces == {"RGB", "YCbCr", "Luma", "YCCK", "CMYK", "HSV"}

\* What the native compression (start_compress, write_scanlines, finish) does:
\* succeeds, reports an error, or panics with a String payload or with a
\* payload of another type.
NativeOutcomes == {"ok", "error", "panic_string", "panic_other"}

\* the format match
MozFormat(cs) ==
    CASE cs = "RGB" -> "JCS_RGB"
      [] cs = "RGBA" -> "JCS_EXT_RGBA"
      [] cs = "YCbCr" -> "JCS_YCbCr"
      [] cs = "Luma" -> "JCS_GRAYSCALE"
      [] cs = "YCCK" -> "JCS_YCCK"
      [] cs = "CMYK" -> "JCS_CMYK"
      [] cs = "BGR" -> "JCS_EXT_BGR"
      [] cs = "BGRA" -> "JCS_EXT_BGRA"
      [] cs = "ARGB" -> "JCS_EXT_ARGB"
      [] cs = "Unknown" -> "JCS_UNKNOWN"
      [] OTHER -> "JCS_UNKNOWN"

\* the set_color_space match
OutColorSpace(format, options) ==
    CASE format = "JCS_GRAYSCALE" -> "JCS_GRAYSCALE"
      [] format = "JCS_CMYK" -> "JCS_CMYK"
      [] format = "JCS_YCCK" -> "JCS_YCCK"
      [] OTHER -> options.color_space

\* The mozjpeg::Compress after the setters: set_quality sets the quality of
\* the luma and of the chroma tables; a table that is set replaces the
\* library's.
Configure(options, cs, size) ==
    LET format == MozFormat(cs)
    IN  [format |-> format,
         size |-> size,
         quality |-> options.quality,
         progressive_mode |-> options.progressive,
         optimize_coding |-> options.optimize_coding,
         smoothing_factor |-> options.smoothing,
         color_space |-> OutColorSpace(format, options),
         use_scans_in_trellis |-> options.trellis_multipass,
         chroma_sampling_pixel_sizes |->
             IF options.chroma_subsample = None THEN None
             ELSE LET sb == options.chroma_subsample[1]
                  IN  Some(<<<<sb, sb>>, <<sb, sb>>>>),
         luma_qtable |-> options.luma_qtable,
         chroma_qtable |-> options.chroma_qtable]

\* the closure's body: the native call's own result, or its panic
Closure(c, outcome) ==
    CASE outcome = "ok" -> Ok(Ok([bytes |-> c]))
      [] outcome = "error" -> Ok(Err(ImageError("IoError", "", <<"native">>)))
      [] outcome = "panic_string" -> Panic([type |-> "String", msg |-> "native panic"])
      [] outcome = "panic_other" -> Panic([type |-> "&str", msg |-> "native panic"])

\* std::panic::catch_unwind: a panic of the closure becomes Err(payload)
NoCatchUnwind(r) == r
CatchUnwind(r) == IF r.tag = "Panic" THEN Err(r.val) ELSE r

\* the map_err closure: the payload downcast to String, or not
MapPanic(payload) ==
    IF payload.type = "String"
    THEN ImageError("EncodeErrors", "Generic", <<payload.msg>>)
    ELSE ImageError("EncodeErrors", "GenericStatic",
                    <<"Unknown error occurred during encoding">>)

\* catch_unwind(closure).map_err(..)?: the value encode_inner returns, or the
\* panic that leaves it
EncodeInnerOf(c, outcome) ==
    LET caught == CatchUnwind(Closure(c, outcome))
    IN  CASE caught.tag = "Panic" -> caught
          [] caught.tag = "Err" -> Err(MapPanic(caught.val))
          [] OTHER -> caught.val

EncodeInner(cs, outcome) ==
    /\ enc.tag = "Ok"
    /\ enc.val.encoder.kind = "MozJpegEncoder"
    /\ LET c == Configure(enc.val.encoder.options[1], cs, img)
       IN  /\ comp' = Some([image |-> cs, outcome |-> outcome, params |-> c])
           /\ encodeOut' = EncodeInnerOf(c, outcome)
    /\ UNCHANGED <<features, encMatches, enc, decodeVars, opsVars, jpegliVars>>

(***************************************************************************)
(* JpegliDecoder                                                           *)
(***************************************************************************)
JpegliColorSpaces ==
    {"JCS_GRAYSCALE", "JCS_RGB", "JCS_YCbCr", "JCS_CMYK", "JCS_YCCK", "JCS_EXT_RGB",
     "JCS_EXT_RGBX", "JCS_EXT_BGR", "JCS_EXT_BGRX", "JCS_EXT_XBGR", "JCS_EXT_XRGB",
     "JCS_EXT_RGBA", "JCS_EXT_BGRA", "JCS_EXT_ABGR", "JCS_EXT_ARGB", "JCS_RGB565",
     "JCS_UNKNOWN"}

\* The JPEGs a source may hold: the size and the colorspace the library
\* reports for it
JpegSources ==
    [width : {8}, height : {4, 6}, color_space : JpegliColorSpaces]

\* What the native decompression does on one call
JpegliOutcomes == {"ok", "error", "panic"}

\* JpegliDecoder::try_new: the fields after construction
TryNew(source) ==
    /\ inner = source
    /\ dimensions = None
    /\ colorspace = None

\* the should_transform_color_space match
ShouldTransformColorSpace(cs) ==
    cs \in {"JCS_EXT_XBGR", "JCS_EXT_XRGB", "JCS_EXT_ABGR", "JCS_RGB565"}

\* the colorspace match
JpegliColorSpace(cs) ==
    CASE cs = "JCS_GRAYSCALE" -> "Luma"
      [] cs = "JCS_RGB" -> "RGB"
      [] cs = "JCS_YCbCr" -> "YCbCr"
      [] cs = "JCS_CMYK" -> "CMYK"
      [] cs = "JCS_YCCK" -> "YCCK"
      [] cs = "JCS_EXT_RGB" -> "RGB"
      [] cs = "JCS_EXT_RGBX" -> "RGBA"
      [] cs = "JCS_EXT_BGR" -> "BGR"
      [] cs = "JCS_EXT_BGRX" -> "BGRA"
      [] cs = "JCS_EXT_XBGR" -> "Unknown"
      [] cs = "JCS_EXT_XRGB" -> "Unknown"
      [] cs = "JCS_EXT_RGBA" -> "RGBA"
      [] cs = "JCS_EXT_BGRA" -> "BGRA"
      [] cs = "JCS_EXT_ABGR" -> "Unknown"
      [] cs = "JCS_EXT_ARGB" -> "ARGB"
      [] cs = "JCS_RGB565" -> "Unknown"
      [] cs = "JCS_UNKNOWN" -> "Unknown"

\* the closure's body: the image read, the library's error, or its panic
JpegliClosure(src, outcome) ==
    CASE outcome = "ok" ->
             LET image_cs == IF ShouldTransformColorSpace(src.color_space)
                             THEN "JCS_YCbCr" ELSE src.color_space
             IN  Ok(Ok([dimensions |-> <<src.width, src.height>>,
                        colorspace |-> JpegliColorSpace(image_cs)]))
      [] outcome = "error" -> Ok(Err("io::Error"))
      [] outcome = "panic" -> Panic("native panic")

\* Result::unwrap on what catch_unwind returned: Err(payload) panics
Unwrap(r) == IF r.tag = "Err" THEN Panic("unwrap on Err") ELSE r.val

\* catch_unwind(closure).unwrap().map_err(..)?: the image, the error returned,
\* or the panic that leaves decode()
JpegliDecodeOf(src, outcome) ==
    LET r == Unwrap(CatchUnwind(JpegliClosure(src, outcome)))
    IN  CASE r.tag = "Panic" -> r
          [] r.tag = "Err" -> Err(ImageError("GenericString", "", <<"error with jpegli">>))
          [] OTHER -> r

\* DecoderTrait::dimensions
DimensionsOf == dimensions

JpegliDecodeRecordsFirst(outcome) ==
    LET r == JpegliDecodeOf(inner, outcome)
    IN  /\ jpegliOut' = r
        /\ IF r.tag = "Ok"
           THEN /\ dimensions' = Some(r.val.dimensions)
                /\ colorspace' = Some(r.val.colorspace)
           ELSE /\ dimensions' = Some(<<inner.width, inner.height>>)
                /\ colorspace' = colorspace
        /\ UNCHANGED <<features, inner, decodeVars, opsVars, encVars>>

JpegliDecode(outcome) ==
    LET r == JpegliDecodeOf(inner, outcome)
    IN  /\ jpegliOut' = r
        /\ IF r.tag = "Ok"
           THEN /\ dimensions' = Some(r.val.dimensions)
                /\ colorspace' = Some(r.val.colorspace)
           ELSE UNCHANGED <<dimensions, colorspace>>
        /\ UNCHANGED <<features, inner, decodeVars, opsVars, encVars>>

(***************************************************************************)
(* The specifications                                                      *)
(***************************************************************************)
InitDecodeIdle ==
    /\ fs = [p \in Paths |-> Missing]
    /\ reqPath = None
    /\ decResult = NotCalled
    /\ filesRead = <<>>
    /\ invoked = <<>>

InitOpsIdle ==
    /\ img = <<8, 4>>
    /\ matches = None
    /\ map = BTreeMapNew
    /\ applied = <<>>

InitEncoderIdle ==
    /\ encMatches = None
    /\ enc = NotCalled
    /\ comp = None
    /\ encodeOut = NotCalled

InitJpegliIdle ==
    /\ TryNew([width |-> 8, height |-> 4, color_space |-> "JCS_YCbCr"])
    /\ jpegliOut = NotCalled

\* decode(): any file system over Paths, any build of the two decoder features
InitDecode ==
    /\ features \in {F \cup {"resize", "quantization"} : F \in SUBSET {"avif", "webp"}}
    /\ fs \in [Paths -> Kinds \cup {Missing}]
    /\ reqPath = None
    /\ decResult = NotCalled
    /\ filesRead = <<>>
    /\ invoked = <<>>
    /\ InitOpsIdle /\ InitEncoderIdle /\ InitJpegliIdle

NextDecode == \E f \in Paths : Decode(f)

SpecDecode == InitDecode /\ [][NextDecode]_vars

\* operations(): any decoded image, any build of the two operation features
InitOps ==
    /\ features \in {F \cup {"avif", "webp"} : F \in SUBSET {"resize", "quantization"}}
    /\ img \in ImageDimensions
    /\ matches = None
    /\ map = BTreeMapNew
    /\ applied = <<>>
    /\ InitDecodeIdle /\ InitEncoderIdle /\ InitJpegliIdle

\* the pipeline of one invocation: built once, then applied
BuildPipeline == matches = None /\ \E m \in OperationMatches : Operations(m)

NextOps ==
    \/ BuildPipeline
    \/ ApplyNext

SpecOps == InitOps /\ [][NextOps]_vars

\* encoder() and the encoder it returns
InitEncoder ==
    /\ features = AllFeatures
    /\ InitDecodeIdle /\ InitOpsIdle /\ InitEncoderIdle /\ InitJpegliIdle

\* the encoder of one invocation: configured once, then used
ConfigureEncoder == encMatches = None /\ \E m \in EncoderMatches : Encoder(m)

NextEncoder ==
    \/ ConfigureEncoder
    \/ \E cs \in ImageColorSpaces, outcome \in NativeOutcomes : EncodeInner(cs, outcome)

SpecEncoder == InitEncoder /\ [][NextEncoder]_vars

\* one JpegliDecoder, from construction on
InitJpegli ==
    /\ features = AllFeatures
    /\ \E source \in JpegSources : TryNew(source)
    /\ jpegliOut = NotCalled
    /\ InitDecodeIdle /\ InitOpsIdle /\ InitEncoderIdle

NextJpegli == \E outcome \in JpegliOutcomes : JpegliDecode(outcome)

SpecJpegli == InitJpegli /\ [][NextJpegli]_vars

\* the whole program
Init == InitDecode

Next == NextDecode \/ NextOps \/ NextEncoder \/ NextJpegli

Spec == Init /\ [][Next]_vars

(***************************************************************************)
(* The claims                                                              *)
(***************************************************************************)

\* The occurrences the build of operations() includes, as <<index, kind>>
ConfiguredOperations(m) ==
    (IF "resize" \in features
     THEN {<<m.resize[i].idx, "Resize">> : i \in DOMAIN m.resize} ELSE {})
    \cup
    (IF "quantization" \in features
     THEN {<<m.quantization[i].idx, "Quantize">> : i \in DOMAIN m.quantization} ELSE {})

\* C1: with pairwise distinct slot indices, the map operations() returns holds
\* exactly the configured operations, iterates them in strictly increasing
\* index order whatever their kind, and the caller's loop applies them in
\* that order.
C1_IndexOrder ==
    matches # None =>
        /\ \A i \in 1..Len(map) : \A j \in 1..Len(map) :
               i < j => map[i].key < map[j].key
        /\ {<<map[i].key, map[i].val.kind>> : i \in 1..Len(map)}
               = ConfiguredOperations(matches[1])
        /\ Len(applied) <= Len(map)
        /\ \A i \in 1..Len(applied) : applied[i] = map[i]

\* a quantize at index 0 applied before a resize at index 2
C1_Witness ==
    /\ Len(applied) = 2
    /\ applied[1].key = 0 /\ applied[1].val.kind = "Quantize"
    /\ applied[2].key = 2 /\ applied[2].val.kind = "Resize"

\* C2: no panic of the native jpegli call leaves JpegliDecoder::decode as a
\* panic: decode returns Ok or Err.
C2_NoPanicEscapes == jpegliOut.tag \in {"NotCalled", "Ok", "Err"}

\* C3 as stated: success returns the bytes; a library-reported error and a
\* panic of the native call each return Err(EncodeErrors).
C3_Original ==
    comp # None =>
        /\ comp[1].outcome = "ok" =>
               encodeOut.tag = "Ok" /\ encodeOut.val = [bytes |-> comp[1].params]
        /\ comp[1].outcome # "ok" =>
               encodeOut.tag = "Err" /\ encodeOut.val.variant = "EncodeErrors"

\* C3 as amended: success returns the bytes; a panic of the native call
\* returns Err(EncodeErrors); a library-reported error returns Err with the
\* library's own error converted by `?`, which is no EncodeErrors; nothing
\* leaves encode_inner as a panic.
C3_Contained ==
    comp # None =>
        /\ encodeOut.tag \in {"Ok", "Err"}
        /\ comp[1].outcome = "ok" =>
               encodeOut.tag = "Ok" /\ encodeOut.val = [bytes |-> comp[1].params]
        /\ comp[1].outcome \in {"panic_string", "panic_other"} =>
               encodeOut.tag = "Err" /\ encodeOut.val.variant = "EncodeErrors"
        /\ comp[1].outcome = "error" =>
               encodeOut.tag = "Err" /\ encodeOut.val.variant = "IoError"

\* the native call panicked and encode_inner returned
C3_Witness ==
    /\ comp # None
    /\ comp[1].outcome = "panic_other"
    /\ encodeOut.tag = "Err"

\* C4: the fallback is entered only when the universal decoder fails with
\* ImageDecoderNotIncluded; on its success, and on any other failure, decode()
\* returns the universal decoder's result, having read no other file and
\* invoked no specialized decoder.
C4_FallbackOnlyOnNotIncluded ==
    reqPath # None =>
        LET f == reqPath[1]
            u == ImageOpen(f)
        IN  /\ (u.tag = "Ok" \/ u.val # "ImageDecoderNotIncluded") =>
                   /\ decResult.tag = u.tag
                   /\ decResult.val = u.val
                   /\ filesRead = <<f>>
                   /\ invoked = <<"universal">>
            /\ (filesRead # <<f>> \/ invoked # <<"universal">>) =>
                   u.tag = "Err" /\ u.val = "ImageDecoderNotIncluded"

\* malformed input returned at once, though the fallback's file is there
C4_Witness ==
    /\ reqPath # None
    /\ fs[reqPath[1]] = "pngbad"
    /\ fs[Fixture] = "avif"
    /\ "avif" \in features
    /\ decResult.tag = "Err" /\ decResult.val = "ImageDecodeErrors"

\* the capability predicates, on the requested input
AvifPredicate(f) == "avif" \in features /\ fs[f] \in {"avif", "avifbad"}
WebPPredicate(f) ==
    "webp" \in features /\ Extension(f) # None /\ EqIgnoreAsciiCase(Extension(f)[1], "webp")

\* C5: in the fallback, the bytes tested and decoded are those of the requested
\* file F: no other file is read, and an AVIF the universal decoder does not
\* include decodes to the image F holds.
C5_FallbackReadsRequested ==
    (reqPath # None /\ ImageOpen(reqPath[1]).tag = "Err"
                    /\ ImageOpen(reqPath[1]).val = "ImageDecoderNotIncluded") =>
        LET f == reqPath[1]
        IN  /\ \A i \in 1..Len(filesRead) : filesRead[i] = f
            /\ ("avif" \in features /\ fs[f] = "avif") =>
                   decResult.tag = "Ok" /\ decResult.val = Img(f)

\* C6: when the universal decoder reports ImageDecoderNotIncluded and no
\* specialized decoder's predicate holds for the requested input, decode()
\* returns ImageDecoderNotImplemented.
C6_NotSupported ==
    (/\ reqPath # None
     /\ ImageOpen(reqPath[1]).tag = "Err"
     /\ ImageOpen(reqPath[1]).val = "ImageDecoderNotIncluded"
     /\ ~AvifPredicate(reqPath[1])
     /\ ~WebPPredicate(reqPath[1])) =>
        decResult.tag = "Err" /\ decResult.val = "ImageDecoderNotImplemented"

\* the extension each encoder's output carries, and the encoder of each name
EncoderTable ==
    [farbfeld |-> <<"FarbFeldEncoder", "ff">>, jpeg |-> <<"JpegEncoder", "jpg">>,
     jpeg_xl |-> <<"JxlEncoder", "jxl">>, mozjpeg |-> <<"MozJpegEncoder", "jpg">>,
     png |-> <<"PngEncoder", "png">>, ppm |-> <<"PPMEncoder", "ppm">>,
     qoi |-> <<"QoiEncoder", "qoi">>]

\* C7: encoder() is a fixed lookup: each of the seven names yields Ok with its
\* encoder and extension, any other name the "not found" error naming it, no
\* subcommand the "No encoder used" error; the two errors differ and neither
\* comes with an encoder.
C7_FixedLookup ==
    encMatches # None =>
        LET sc == encMatches[1].subcommand
        IN  /\ sc = None =>
                   /\ enc.tag = "Err"
                   /\ enc.val.variant = "GenericStr"
                   /\ enc.val.msg = <<"No encoder used">>
            /\ (sc # None /\ sc[1][1] \in EncoderNames) =>
                   /\ enc.tag = "Ok"
                   /\ enc.val.encoder.kind = EncoderTable[sc[1][1]][1]
                   /\ enc.val.ext = EncoderTable[sc[1][1]][2]
            /\ (sc # None /\ sc[1][1] \notin EncoderNames) =>
                   /\ enc.tag = "Err"
                   /\ enc.val.variant = "GenericString"
                   /\ enc.val.msg = <<"Encoder \"", sc[1][1], "\" not found">>

\* a name that is no encoder
C7_Witness ==
    /\ encMatches # None
    /\ encMatches[1].subcommand # None
    /\ encMatches[1].subcommand[1][1] = "avif"
    /\ enc.tag = "Err"

\* the quality the chroma quantization of a configured Compress is scaled by
ChromaQualityUsed(c) ==
    IF c.chroma_qtable # None THEN c.chroma_qtable[1].ac ELSE c.quality

\* C8: for every mozjpeg configuration, with or without a named table: with
\* chroma_quality unset the chroma quality the encoder uses is quality; with
\* chroma_quality set to another value, it is that value.
C8_ChromaOverride ==
    comp # None =>
        LET sub == encMatches[1].subcommand[1][2]
            used == ChromaQualityUsed(comp[1].params)
        IN  /\ sub.chroma_quality = None => used = sub.quality
            /\ (sub.chroma_quality # None /\ sub.chroma_quality[1] # sub.quality) =>
                   used = sub.chroma_quality[1]

\* the resize occurrence of a slot index
ResizeOccurrence(m, idx) ==
    CHOOSE o \in {m.resize[i] : i \in DOMAIN m.resize} : o.idx = idx

\* C9: each resize with a relative target, when applied, leaves the image with
\* that target resolved against the dimensions the operations before it left.
C9_ResizesCompose ==
    [][(/\ matches # None
        /\ Len(applied') = Len(applied) + 1
        /\ applied'[Len(applied')].val.kind = "Resize"
        /\ ResizeOccurrence(matches[1], applied'[Len(applied')].key).value.kind
               = "Percentage")
       => img' = MapDimensions(
                     ResizeOccurrence(matches[1], applied'[Len(applied')].key).value,
                     img[1], img[2])]_vars

\* mozjpeg::qtable: the family of each table and which variant of it it is
QTableCatalog(base) ==
    CASE base = "AnnexK_Luma" -> [family |-> "AnnexK", variant |-> "Luma"]
      [] base = "AnnexK_Chroma" -> [family |-> "AnnexK", variant |-> "Chroma"]
      [] base = "MSSSIM_Luma" -> [family |-> "MSSSIM", variant |-> "Luma"]
      [] base = "MSSSIM_Chroma" -> [family |-> "MSSSIM", variant |-> "Chroma"]
      [] base = "PSNRHVS_Luma" -> [family |-> "PSNRHVS", variant |-> "Luma"]
      [] base = "PSNRHVS_Chroma" -> [family |-> "PSNRHVS", variant |-> "Chroma"]
      [] OTHER -> [family |-> base, variant |-> "Only"]

\* C10: the mozjpeg options encoder() builds have both tables unset when no
\* family is named and both set when one is; then both are of the named family,
\* the luma one its luma (or only) table scaled by quality, the chroma one its
\* chroma (or only) table scaled by chroma_quality.
C10_TablesPaired ==
    (encMatches # None /\ enc.tag = "Ok" /\ enc.val.encoder.kind = "MozJpegEncoder") =>
        LET sub == encMatches[1].subcommand[1][2]
            o == enc.val.encoder.options[1]
            cq == IF sub.chroma_quality = None THEN sub.quality
                  ELSE sub.chroma_quality[1]
        IN  /\ sub.qtable = None => o.luma_qtable = None /\ o.chroma_qtable = None
            /\ sub.qtable # None =>
                   /\ o.luma_qtable # None /\ o.chroma_qtable # None
                   /\ LET l == o.luma_qtable[1]
                          c == o.chroma_qtable[1]
                      IN  /\ QTableCatalog(l.base).family = sub.qtable[1]
                          /\ QTableCatalog(c.base).family = sub.qtable[1]
                          /\ QTableCatalog(l.base).variant \in {"Luma", "Only"}
                          /\ QTableCatalog(c.base).variant \in {"Chroma", "Only"}
                          /\ l.dc = sub.quality /\ l.ac = sub.quality
                          /\ c.dc = cq /\ c.ac = cq

\* a family with two variants, chroma_quality overriding quality
C10_Witness ==
    /\ encMatches # None
    /\ enc.tag = "Ok"
    /\ enc.val.encoder.kind = "MozJpegEncoder"
    /\ encMatches[1].subcommand[1][2].qtable = Some("AnnexK")
    /\ encMatches[1].subcommand[1][2].quality = 90
    /\ encMatches[1].subcommand[1][2].chroma_quality = Some(40)
    /\ enc.val.encoder.options[1].chroma_qtable = Some(Scaled("AnnexK_Chroma", 40, 40))

\* C11: on one JpegliDecoder, dimensions() and the recorded colorspace are None
\* from construction, a decode that does not return Ok leaves both as they
\* were, and a decode that returns Ok leaves both equal to the dimensions and
\* colorspace of the image it returned; so both are set exactly when a decode
\* has succeeded.
C11_RecordedOnSuccess ==
    /\ DimensionsOf = None /\ colorspace = None
    /\ [][/\ jpegliOut'.tag = "Ok" =>
                 /\ DimensionsOf' = Some(jpegliOut'.val.dimensions)
                 /\ colorspace' = Some(jpegliOut'.val.colorspace)
          /\ jpegliOut'.tag # "Ok" =>
                 /\ DimensionsOf' = DimensionsOf
                 /\ colorspace' = colorspace]_vars

\* a decode failed after one had succeeded: the values are still recorded
C11_Witness ==
    /\ jpegliOut.tag = "Err"
    /\ DimensionsOf = Some(<<inner.width, inner.height>>)
    /\ colorspace # None

====
